---- MODULE Spec2Model ----
(***************************************************************************)
(* Model of the FCFS intersection manager of coop_v2x                      *)
(* (intersection_manager.py) and of the three calls the run loop makes on  *)
(* it each tick (run_simulation.py): update, current_permissions and       *)
(* poll_completed.                                                         *)
(*                                                                         *)
(* Two claims are about the run loop as a whole: there get_location holds  *)
(* the place of every vehicle of main's list and control what each agent's *)
(* step applied (vehicle_agent.py).  Where the manager is driven with      *)
(* synthetic snapshots there is no world and both are empty.               *)
(*                                                                         *)
(* _states is the manager's dict, kept as the sequence of its values in    *)
(* insertion order (a Python dict iterates in insertion order; a popped    *)
(* and re-registered id goes to the end).  _active_ids is the list of ids  *)
(* holding permission.  Timestamps are naturals; the optional float fields *)
(* use None.  Locations are integer points, distances are compared by      *)
(* their squares so that no rounding is involved.                          *)
(***************************************************************************)
EXTENDS Integers, Sequences, FiniteSets

VARIABLES
    _states,      \* IntersectionManager._states, values in insertion order
    _active_ids,  \* IntersectionManager._active_ids
    _max_active,  \* IntersectionManager._max_active
    max_active,   \* the max_active argument given to __init__
    op,           \* the call made last: "init", "update", "current_permissions", "poll_completed"
    timestamp,    \* the timestamp argument of the last update
    permissions,  \* the keys of the dict the last call returned, if it was current_permissions
    finished,     \* the vehicle ids of the list the last call returned, if it was poll_completed
    returned,     \* history: how many poll_completed calls have returned each vehicle id
    get_location, \* vehicle.get_location() of each vehicle of main's list (empty without a world)
    control       \* the control each agent's step applied in this tick, once the tick has reached the steps

vars == <<_states, _active_ids, _max_active, max_active, op, timestamp,
          permissions, finished, returned, get_location, control>>

-----------------------------------------------------------------------------
(* Bounds of the model *)

NumVehicles == 2   \* vehicle ids are 1..NumVehicles
MaxTime == 1       \* timestamps are 0..MaxTime
MaxLimit == 2      \* max_active arguments are 0..MaxLimit
MaxReturns == 2    \* the history counts the returns of an id up to MaxReturns

(* Program constants *)

None == -1              \* Optional[float] = None
approach_radius == 25   \* default of __init__
box_half_extent == 8    \* default of __init__
center == [x |-> 0, y |-> 0, z |-> 0]

VehicleIds == 1..NumVehicles
Timestamps == 0..MaxTime

\* The places a vehicle is observed at: inside the box; outside the box and
\* within 0.75*R; outside the box, beyond 0.75*R and within R; beyond R.
Locations ==
    { [x |-> 0, y |-> 0, z |-> 0],
      [x |-> 10, y |-> 0, z |-> 0],
      [x |-> 0, y |-> 20, z |-> 0],
      [x |-> 30, y |-> 0, z |-> 0] }

\* The lists of agents update is called with: each agent is a VehicleAgent as
\* update sees it (agent.vehicle.id and the vehicle's location), and no two
\* agents of a list have the same vehicle id.
SnapshotsOf(ids, locations) ==
    { s \in UNION { [1..n -> [id : ids, loc : locations]] : n \in 0..Cardinality(ids) } :
        \A i, j \in DOMAIN s : s[i].id = s[j].id => i = j }

Snapshots == SnapshotsOf(VehicleIds, Locations)

\* A crowd: one vehicle more, each observed inside the box or outside it
\* beyond 0.75*R and within R.
CrowdIds == 1..(NumVehicles + 1)

CrowdLocations ==
    { [x |-> 0, y |-> 0, z |-> 0],
      [x |-> 0, y |-> 20, z |-> 0] }

CrowdSnapshots == SnapshotsOf(CrowdIds, CrowdLocations)

-----------------------------------------------------------------------------
(* Geometry *)

Abs(n) == IF n < 0 THEN -n ELSE n

\* carla.Location.distance, squared.
DistSq(a, b) ==
    (a.x - b.x) * (a.x - b.x) + (a.y - b.y) * (a.y - b.y) + (a.z - b.z) * (a.z - b.z)

\* VehicleAgent.distance_to(self.center), squared.
distance_to(agent, location) == DistSq(agent.loc, location)

\* dist <= self.approach_radius
WithinApproach(dist) == dist <= approach_radius * approach_radius

\* dist > self.approach_radius * 0.75, that is 4*dist > 3*R, squared.
BeyondHysteresis(dist) == 16 * dist > 9 * approach_radius * approach_radius

_is_in_box(location) ==
    /\ Abs(location.x - center.x) <= box_half_extent
    /\ Abs(location.y - center.y) <= box_half_extent

-----------------------------------------------------------------------------
(* The dict of VehicleState *)

VehicleState(vid, arrival) ==
    [vehicle_id |-> vid, arrival_time |-> arrival, in_box |-> FALSE,
     cleared |-> FALSE, permission_time |-> None, enter_time |-> None,
     exit_time |-> None, exported |-> FALSE]

Keys(states) == { states[i].vehicle_id : i \in DOMAIN states }

\* self._states.get(vid), for a vid that is a key.
Get(states, vid) == states[CHOOSE i \in DOMAIN states : states[i].vehicle_id = vid]

\* The position of vid in the dict's iteration order.
IndexOf(states, vid) == CHOOSE i \in DOMAIN states : states[i].vehicle_id = vid

\* state.<field> = ... on the record of vid: the dict keeps its order.
Put(states, vid, rec) ==
    [i \in DOMAIN states |-> IF states[i].vehicle_id = vid THEN rec ELSE states[i]]

InList(list, vid) == \E i \in DOMAIN list : list[i] = vid

\* list.remove(vid) for a list without duplicates.
Remove(list, vid) == SelectSeq(list, LAMBDA v : v # vid)

-----------------------------------------------------------------------------
(* update, loop by loop *)

\* Variant: registers without looking for an existing record, so that a
\* tracked vehicle gets a fresh record on every update.
RECURSIVE RegisterAgain(_, _, _, _)
RegisterAgain(states, snapshot, ts, i) ==
    IF i > Len(snapshot) THEN states
    ELSE LET vid == snapshot[i].id
             dist == distance_to(snapshot[i], center)
         IN RegisterAgain(
                IF ~WithinApproach(dist) THEN states
                ELSE IF vid \in Keys(states) THEN Put(states, vid, VehicleState(vid, ts))
                ELSE Append(states, VehicleState(vid, ts)),
                snapshot, ts, i + 1)

\* "Register arrivals": the first loop, from agent i on.
RECURSIVE RegisterArrivals(_, _, _, _)
RegisterArrivals(states, snapshot, ts, i) ==
    IF i > Len(snapshot) THEN states
    ELSE LET vid == snapshot[i].id
             dist == distance_to(snapshot[i], center)
         IN RegisterArrivals(
                IF WithinApproach(dist) /\ vid \notin Keys(states)
                  THEN Append(states, VehicleState(vid, ts))
                  ELSE states,
                snapshot, ts, i + 1)

\* The value the variable dist holds after the first loop: the distance of
\* the last agent of the list.  The third loop reads it (it runs only when
\* the list is not empty).
StaleDist(snapshot) == distance_to(snapshot[Len(snapshot)], center)

\* dead_ids: the tracked ids no agent of the list has.
DeadIds(states, snapshot) ==
    { vid \in Keys(states) : ~ \E i \in DOMAIN snapshot : snapshot[i].id = vid }

\* Variant: pops the records and leaves the ids in the active list.
DropDeadRecordsOnly(states, active, snapshot) ==
    LET dead == DeadIds(states, snapshot)
    IN [states |-> SelectSeq(states, LAMBDA st : st.vehicle_id \notin dead),
        active |-> active]

\* "Drop cleared/removed vehicles from tracking".
DropDead(states, active, snapshot) ==
    LET dead == DeadIds(states, snapshot)
    IN [states |-> SelectSeq(states, LAMBDA st : st.vehicle_id \notin dead),
        active |-> SelectSeq(active, LAMBDA v : v \notin dead)]

\* Variant: the clearing branch does not ask that the vehicle was in the box.
ClearsWithoutEntry(state, in_box, dist) == ~in_box /\ BeyondHysteresis(dist)

\* Variant: the clearing branch does not ask that the vehicle is outside the box.
ClearsWhileInside(state, in_box, dist) == state.in_box /\ BeyondHysteresis(dist)

\* The condition of the clearing branch: state.in_box and not in_box and
\* dist > self.approach_radius * 0.75.
Clears(state, in_box, dist) == state.in_box /\ ~in_box /\ BeyondHysteresis(dist)

\* Variant: the clearing branch sets exit_time without testing it for None.
BoxStepRestamp(state, in_box, dist, ts) ==
    LET s1 == IF in_box /\ ~state.in_box
                THEN [state EXCEPT !.in_box = TRUE,
                                   !.enter_time = IF @ = None THEN ts ELSE @]
                ELSE state
    IN IF Clears(s1, in_box, dist)
         THEN [s1 EXCEPT !.cleared = TRUE, !.exit_time = ts]
         ELSE s1

\* Variant: the entering branch sets in_box and leaves enter_time alone.
BoxStepNoEnterStamp(state, in_box, dist, ts) ==
    LET s1 == IF in_box /\ ~state.in_box
                THEN [state EXCEPT !.in_box = TRUE]
                ELSE state
    IN IF Clears(s1, in_box, dist)
         THEN [s1 EXCEPT !.cleared = TRUE,
                         !.exit_time = IF @ = None THEN ts ELSE @]
         ELSE s1

\* Variant: the clearing branch sets cleared and leaves exit_time alone.
BoxStepNoExitStamp(state, in_box, dist, ts) ==
    LET s1 == IF in_box /\ ~state.in_box
                THEN [state EXCEPT !.in_box = TRUE,
                                   !.enter_time = IF @ = None THEN ts ELSE @]
                ELSE state
    IN IF Clears(s1, in_box, dist) THEN [s1 EXCEPT !.cleared = TRUE] ELSE s1

\* Variant: the iteration ends with state.in_box = in_box, so that the flag
\* follows the containment.
BoxStepFollowing(state, in_box, dist, ts) ==
    LET s1 == IF in_box /\ ~state.in_box
                THEN [state EXCEPT !.in_box = TRUE,
                                   !.enter_time = IF @ = None THEN ts ELSE @]
                ELSE state
        s2 == IF Clears(s1, in_box, dist)
                THEN [s1 EXCEPT !.cleared = TRUE,
                                !.exit_time = IF @ = None THEN ts ELSE @]
                ELSE s1
    IN [s2 EXCEPT !.in_box = in_box]

\* The record after one iteration of the third loop on a tracked agent.
BoxStep(state, in_box, dist, ts) ==
    LET s1 == IF in_box /\ ~state.in_box
                THEN [state EXCEPT !.in_box = TRUE,
                                   !.enter_time = IF @ = None THEN ts ELSE @]
                ELSE state
    IN IF Clears(s1, in_box, dist)
         THEN [s1 EXCEPT !.cleared = TRUE,
                         !.exit_time = IF @ = None THEN ts ELSE @]
         ELSE s1

\* Variant: the clearing branch leaves the id in the active list.
RECURSIVE UpdateBoxesKeepActive(_, _, _, _, _, _)
UpdateBoxesKeepActive(states, active, snapshot, ts, dist, i) ==
    IF i > Len(snapshot) THEN [states |-> states, active |-> active]
    ELSE LET vid == snapshot[i].id
         IN IF vid \notin Keys(states)
              THEN UpdateBoxesKeepActive(states, active, snapshot, ts, dist, i + 1)
              ELSE UpdateBoxesKeepActive(
                       Put(states, vid,
                           BoxStep(Get(states, vid), _is_in_box(snapshot[i].loc), dist, ts)),
                       active, snapshot, ts, dist, i + 1)

\* "Update in_box flags and clear exiting vehicles": the third loop, from agent i on.
RECURSIVE UpdateBoxes(_, _, _, _, _, _)
UpdateBoxes(states, active, snapshot, ts, dist, i) ==
    IF i > Len(snapshot) THEN [states |-> states, active |-> active]
    ELSE LET vid == snapshot[i].id
         IN IF vid \notin Keys(states)
              THEN UpdateBoxes(states, active, snapshot, ts, dist, i + 1)
              ELSE LET old == Get(states, vid)
                       in_box == _is_in_box(snapshot[i].loc)
                   IN UpdateBoxes(Put(states, vid, BoxStep(old, in_box, dist, ts)),
                                  IF Clears(old, in_box, dist)
                                    THEN Remove(active, vid) ELSE active,
                                  snapshot, ts, dist, i + 1)

\* Variant: the cleared records wait too.
WaitingWithCleared(states, active) ==
    LET ws == SelectSeq(states, LAMBDA st : ~InList(active, st.vehicle_id))
    IN [i \in DOMAIN ws |-> <<ws[i].vehicle_id, ws[i].arrival_time>>]

\* waiting: (vid, arrival_time) of the records that are not cleared and not
\* active, in dict order.
Waiting(states, active) ==
    LET ws == SelectSeq(states, LAMBDA st : ~st.cleared /\ ~InList(active, st.vehicle_id))
    IN [i \in DOMAIN ws |-> <<ws[i].vehicle_id, ws[i].arrival_time>>]

\* Variant: the sort is not stable, an item goes before the items of its key.
RECURSIVE InsertBeforeTies(_, _)
InsertBeforeTies(sorted, item) ==
    IF sorted = <<>> THEN <<item>>
    ELSE IF item[2] <= Head(sorted)[2] THEN <<item>> \o sorted
    ELSE <<Head(sorted)>> \o InsertBeforeTies(Tail(sorted), item)

\* list.sort(key=item[1]): stable, ascending.  Insert puts item behind every
\* element whose key is not greater.
RECURSIVE Insert(_, _)
Insert(sorted, item) ==
    IF sorted = <<>> THEN <<item>>
    ELSE IF item[2] < Head(sorted)[2] THEN <<item>> \o sorted
    ELSE <<Head(sorted)>> \o Insert(Tail(sorted), item)

\* Variant: sorts with reverse=True, the latest arrival first.
RECURSIVE InsertDescending(_, _)
InsertDescending(sorted, item) ==
    IF sorted = <<>> THEN <<item>>
    ELSE IF item[2] > Head(sorted)[2] THEN <<item>> \o sorted
    ELSE <<Head(sorted)>> \o InsertDescending(Tail(sorted), item)

RECURSIVE SortNewestFirst(_)
SortNewestFirst(waiting) ==
    IF waiting = <<>> THEN <<>>
    ELSE InsertDescending(SortNewestFirst(SubSeq(waiting, 1, Len(waiting) - 1)),
                          waiting[Len(waiting)])

RECURSIVE SortByArrival(_)
SortByArrival(waiting) ==
    IF waiting = <<>> THEN <<>>
    ELSE Insert(SortByArrival(SubSeq(waiting, 1, Len(waiting) - 1)),
                waiting[Len(waiting)])

\* Variant: the loop does not stop at the limit.
RECURSIVE AdmitUnbounded(_, _, _, _, _, _)
AdmitUnbounded(states, active, waiting, ts, limit, i) ==
    IF i > Len(waiting)
      THEN [states |-> states, active |-> active]
      ELSE LET vid == waiting[i][1]
               state == Get(states, vid)
           IN AdmitUnbounded(Put(states, vid,
                        [state EXCEPT !.permission_time = IF @ = None THEN ts ELSE @]),
                    Append(active, vid), waiting, ts, limit, i + 1)

\* Variant: the loop stops one slot before the limit.
RECURSIVE AdmitShort(_, _, _, _, _, _)
AdmitShort(states, active, waiting, ts, limit, i) ==
    IF i > Len(waiting) \/ Len(active) + 1 >= limit
      THEN [states |-> states, active |-> active]
      ELSE LET vid == waiting[i][1]
               state == Get(states, vid)
           IN AdmitShort(Put(states, vid,
                        [state EXCEPT !.permission_time = IF @ = None THEN ts ELSE @]),
                    Append(active, vid), waiting, ts, limit, i + 1)

\* The admission loop over the sorted waiting list, from item i on.
RECURSIVE Admit(_, _, _, _, _, _)
Admit(states, active, waiting, ts, limit, i) ==
    IF i > Len(waiting) \/ Len(active) >= limit
      THEN [states |-> states, active |-> active]
      ELSE LET vid == waiting[i][1]
               state == Get(states, vid)
           IN Admit(Put(states, vid,
                        [state EXCEPT !.permission_time = IF @ = None THEN ts ELSE @]),
                    Append(active, vid), waiting, ts, limit, i + 1)

\* "Assign permissions up to the allowed active count".
AssignPermissions(states, active, ts, limit) ==
    Admit(states, active, SortByArrival(Waiting(states, active)), ts, limit, 1)

\* IntersectionManager.update: the manager after update(snapshot, ts).
UpdateResult(states, active, limit, snapshot, ts) ==
    LET registered == RegisterArrivals(states, snapshot, ts, 1)
        dropped == DropDead(registered, active, snapshot)
        boxed == IF snapshot = <<>> THEN dropped
                 ELSE UpdateBoxes(dropped.states, dropped.active, snapshot, ts,
                                  StaleDist(snapshot), 1)
    IN AssignPermissions(boxed.states, boxed.active, ts, limit)

\* IntersectionManager.current_permissions: the keys of the returned dict.
PermissionsResult(active) == { active[i] : i \in DOMAIN active }

\* Variant: returns every cleared record, exported or not.
FinishedCleared(states) == SelectSeq(states, LAMBDA st : st.cleared)

\* IntersectionManager.poll_completed: the records it returns, in dict order.
Finished(states) == SelectSeq(states, LAMBDA st : st.cleared /\ ~st.exported)

\* Variant: the loop does not set exported.
MarkNothing(states) == states

\* Variant: the loop sets exported on every record.
MarkEveryRecord(states) ==
    [i \in DOMAIN states |-> [states[i] EXCEPT !.exported = TRUE]]

\* IntersectionManager.poll_completed: the dict after the call.
MarkExported(states) ==
    [i \in DOMAIN states |->
        IF states[i].cleared /\ ~states[i].exported
          THEN [states[i] EXCEPT !.exported = TRUE]
          ELSE states[i]]

FinishedIds(states) ==
    LET f == Finished(states) IN [i \in DOMAIN f |-> f[i].vehicle_id]

-----------------------------------------------------------------------------
(* The state machine *)

\* max(1, max_active)
ClampLimit(limit) == IF limit < 1 THEN 1 ELSE limit

\* IntersectionManager.__init__ with the max_active argument limit.
InitManager(limit) ==
    /\ max_active = limit
    /\ _max_active = ClampLimit(max_active)
    /\ _states = <<>>
    /\ _active_ids = <<>>
    /\ op = "init"
    /\ timestamp = 0
    /\ permissions = {}
    /\ finished = <<>>
    /\ returned = [vid \in CrowdIds |-> 0]

\* No world is attached to the manager: it is driven with synthetic snapshots.
NoWorld == <<>>

\* No step has applied a control in this tick.
NoControl == <<>>

\* The manager after construction, observing the vehicles of world (the place
\* of each); no step has applied a control.
Constructed(limit, world) ==
    /\ InitManager(limit)
    /\ get_location = world
    /\ control = NoControl

\* The manager alone.
InitWith(limit) == Constructed(limit, NoWorld)

Init == \E limit \in 0..MaxLimit : InitWith(limit)

\* manager.update(agents, timestamp), with a list of agents out of snapshots
\* and a timestamp not earlier than the last.
UpdateFrom(snapshots) ==
    \E snapshot \in snapshots, ts \in Timestamps :
        /\ ts >= timestamp
        /\ \E r \in {UpdateResult(_states, _active_ids, _max_active, snapshot, ts)} :
              /\ _states' = r.states
              /\ _active_ids' = r.active
        /\ op' = "update"
        /\ timestamp' = ts
        /\ permissions' = {}
        /\ finished' = <<>>
        /\ UNCHANGED <<_max_active, max_active, returned, get_location, control>>

Update == UpdateFrom(Snapshots)

\* manager.current_permissions()
CurrentPermissions ==
    /\ permissions' = PermissionsResult(_active_ids)
    /\ op' = "current_permissions"
    /\ finished' = <<>>
    /\ UNCHANGED <<_states, _active_ids, _max_active, max_active, timestamp, returned,
                   get_location, control>>

\* manager.poll_completed()
PollCompleted ==
    /\ finished' = FinishedIds(_states)
    /\ _states' = MarkExported(_states)
    /\ op' = "poll_completed"
    /\ permissions' = {}
    /\ returned' = [vid \in CrowdIds |->
                       IF InList(finished', vid) /\ returned[vid] < MaxReturns
                         THEN returned[vid] + 1 ELSE returned[vid]]
    /\ UNCHANGED <<_active_ids, _max_active, max_active, timestamp, get_location, control>>

Next == Update \/ CurrentPermissions \/ PollCompleted

Spec == Init /\ [][Next]_vars

\* The run loop of main: each tick calls update, then current_permissions,
\* then poll_completed.
LoopUpdate == op \in {"init", "poll_completed"} /\ Update
LoopPermissions == op = "update" /\ CurrentPermissions
LoopPoll == op = "current_permissions" /\ PollCompleted

LoopNext == LoopUpdate \/ LoopPermissions \/ LoopPoll

LoopSpec == Init /\ [][LoopNext]_vars

\* The manager as main constructs it (max_active is left at its default),
\* updated with the snapshots of a crowd.
max_active_default == 1

CrowdInit == InitWith(max_active_default)

CrowdUpdate == UpdateFrom(CrowdSnapshots)

CrowdSpec == CrowdInit /\ [][CrowdUpdate]_vars

\* The crowd where every vehicle that is admitted is marked cleared or
\* disappears from the snapshot in the end: no vehicle holds permission for
\* ever (an update takes an id out of the active list in these two ways only).
FairCrowdSpec ==
    CrowdSpec /\ \A vid \in CrowdIds : []<>(~InList(_active_ids, vid))

-----------------------------------------------------------------------------
(* The run loop with its world *)

\* The vehicles main spawns, in the order of its list agents: the list is built
\* once, so that its ids and their order are the same in every tick.
RunIds == CrowdIds

\* The places a vehicle of the list is at: inside the box; outside the box,
\* beyond 0.75*R and within R; beyond R.
RunLocations ==
    { [x |-> 0, y |-> 0, z |-> 0],
      [x |-> 0, y |-> 20, z |-> 0],
      [x |-> 30, y |-> 0, z |-> 0] }

\* The places of the vehicles of the list.
Worlds == [RunIds -> RunLocations]

\* agents as update sees the list in a tick.
AgentsAt(world) == [i \in RunIds |-> [id |-> i, loc |-> world[i]]]

\* distance_to_stop <= self.stop_radius: main gives every agent the center as
\* stop_location and the approach radius as stop_radius.
WithinStop(dist) == dist <= approach_radius * approach_radius

\* Variant: step applies the planner's control whatever the permission.
StepPlannerOnly(permission_to_go, distance_to_stop) == "run_step"

\* VehicleAgent.step: the control it applies.
step(permission_to_go, distance_to_stop) ==
    IF ~permission_to_go /\ WithinStop(distance_to_stop) THEN "brake" ELSE "run_step"

\* What the gate of step is meant to achieve, as an assumption on the world: a
\* vehicle outside the box is inside it one tick later only if it was in
\* current_permissions (the keys are the active list, which no call changes
\* between two updates).
Gate(world) ==
    \A vid \in RunIds :
        (_is_in_box(world[vid]) /\ ~_is_in_box(get_location[vid]))
            => InList(_active_ids, vid)

\* world.tick() moves the vehicles, then manager.update(agents, timestamp).
Tick(gated) ==
    /\ op \in {"init", "poll_completed"}
    /\ \E world \in Worlds, ts \in Timestamps :
          /\ ts >= timestamp
          /\ gated => Gate(world)
          /\ \E r \in {UpdateResult(_states, _active_ids, _max_active, AgentsAt(world), ts)} :
                /\ _states' = r.states
                /\ _active_ids' = r.active
          /\ get_location' = world
          /\ timestamp' = ts
    /\ op' = "update"
    /\ permissions' = {}
    /\ finished' = <<>>
    /\ control' = NoControl
    /\ UNCHANGED <<_max_active, max_active, returned>>

\* permissions = manager.current_permissions()
RunPermissions == op = "update" /\ CurrentPermissions

\* for agent in agents: agent.step(permissions.get(agent.vehicle.id, False))
RunStep ==
    /\ op = "current_permissions"
    /\ control' = [vid \in RunIds |->
                      step(vid \in permissions, DistSq(get_location[vid], center))]
    /\ op' = "step"
    /\ UNCHANGED <<_states, _active_ids, _max_active, max_active, timestamp,
                   permissions, finished, returned, get_location>>

\* completed = manager.poll_completed()
RunPoll == op = "step" /\ PollCompleted

\* main: the manager with the default limit and the vehicles where they were
\* spawned.
RunInit == \E world \in Worlds : Constructed(max_active_default, world)

RunTick == Tick(FALSE)

RunNext == RunTick \/ RunPermissions \/ RunStep \/ RunPoll

RunSpec == RunInit /\ [][RunNext]_vars

\* The run loop in a world that keeps to the gate, with the vehicles spawned
\* outside the box, for each limit.
GatedInit ==
    \E limit \in 0..MaxLimit : \E world \in Worlds :
        /\ \A vid \in RunIds : ~_is_in_box(world[vid])
        /\ Constructed(limit, world)

GatedTick == Tick(TRUE)

GatedNext == GatedTick \/ RunPermissions \/ RunStep \/ RunPoll

GatedSpec == GatedInit /\ [][GatedNext]_vars

-----------------------------------------------------------------------------
(* Notation of the properties *)

Elems(list) == { list[i] : i \in DOMAIN list }

\* The records that wait: tracked, not cleared, without permission.
WaitingIds(states, active) ==
    { vid \in Keys(states) : ~Get(states, vid).cleared /\ vid \notin Elems(active) }

\* x comes before y in first-come-first-served order: it arrived earlier, or
\* at the same time with its record created first.
Precedes(states, x, y) ==
    \/ Get(states, x).arrival_time < Get(states, y).arrival_time
    \/ /\ Get(states, x).arrival_time = Get(states, y).arrival_time
       /\ IndexOf(states, x) < IndexOf(states, y)

\* The timestamps update may be called with next.
NextTimestamps == { ts \in Timestamps : ts >= timestamp }

\* The manager after update(snapshot, ts) in the current state.
After(snapshot, ts) == UpdateResult(_states, _active_ids, _max_active, snapshot, ts)

SnapshotIds(snapshot) == { snapshot[i].id : i \in DOMAIN snapshot }

Ordered(a, b) == a = None \/ b = None \/ a <= b

-----------------------------------------------------------------------------
(* C1 *)

\* C1: the active set never holds more than max(1, max_active) identifiers,
\* and holds none twice; with a limit argument below 1 at most one.
C1_BoundedActive ==
    /\ Len(_active_ids) <= (IF max_active < 1 THEN 1 ELSE max_active)
    /\ Cardinality(Elems(_active_ids)) = Len(_active_ids)

\* The limit argument was below 1, one vehicle holds permission and another waits.
C1_Witness ==
    /\ max_active < 1
    /\ Len(_active_ids) = 1
    /\ WaitingIds(_states, _active_ids) # {}

(* C2 *)

\* C2: when update admits x, every record left waiting after that update comes
\* after x in first-come-first-served order (later arrival_time, or the same
\* arrival_time and a record created later).
C2_FCFS ==
    [][op' = "update" =>
        \A x \in Elems(_active_ids') \ Elems(_active_ids) :
            \A y \in WaitingIds(_states', _active_ids') :
                Precedes(_states', x, y)]_vars

\* An update has admitted a vehicle that had waited, and leaves waiting both a
\* vehicle that arrived later and one that arrived at the same time as another.
C2_Witness ==
    /\ op = "update"
    /\ \E x \in Elems(_active_ids) :
          /\ Get(_states, x).permission_time = timestamp
          /\ Get(_states, x).arrival_time < timestamp
          /\ \E y \in WaitingIds(_states, _active_ids) :
                Get(_states, x).arrival_time < Get(_states, y).arrival_time
          /\ \E y, z \in WaitingIds(_states, _active_ids) :
                y # z /\ Get(_states, y).arrival_time = Get(_states, z).arrival_time

(* C3 *)

\* C3 as stated: poll_completed never returns an identifier it has returned before.
C3_NeverSameIdTwice ==
    \A vid \in CrowdIds : returned[vid] <= 1

\* C3 amended: poll_completed never returns the same record twice: it returns
\* only records whose exported flag is unset and sets it, and the flag of a
\* tracked record is never unset again.
C3_NeverSameRecordTwice ==
    [][/\ op' = "poll_completed" =>
            \A i \in DOMAIN finished' :
                /\ finished'[i] \in Keys(_states)
                /\ ~Get(_states, finished'[i]).exported
                /\ Get(_states', finished'[i]).exported
       /\ \A vid \in Keys(_states) \cap Keys(_states') :
            Get(_states, vid).exported => Get(_states', vid).exported]_vars

\* poll_completed has just returned an identifier that an earlier call had
\* returned for an earlier record.
C3_Witness ==
    /\ op = "poll_completed"
    /\ \E i \in DOMAIN finished :
          /\ returned[finished[i]] = 2
          /\ Get(_states, finished[i]).exported

(* C4 *)

\* C4: in the run loop, poll_completed returns exactly the records that are
\* cleared and not exported and marks them exported, so that nothing is left
\* for a call made right after; and no update starts with a cleared record that
\* was not returned.
C4_Drain ==
    [][/\ op' = "poll_completed" =>
            /\ Elems(finished') =
                 { vid \in Keys(_states) :
                     Get(_states, vid).cleared /\ ~Get(_states, vid).exported }
            /\ Len(finished') = Cardinality(Elems(finished'))
            /\ \A vid \in Keys(_states') :
                 Get(_states', vid).cleared => Get(_states', vid).exported
            /\ FinishedIds(_states') = <<>>
       /\ op' = "update" =>
            \A vid \in Keys(_states) :
                 Get(_states, vid).cleared => Get(_states, vid).exported]_vars

\* A poll_completed call of the run loop has returned a record.
C4_Witness ==
    /\ op = "poll_completed"
    /\ finished # <<>>

(* C5 *)

\* C5 as stated: arrival_time <= permission_time <= enter_time <= exit_time
\* between each pair of these fields that are set.
C5_MonotonicTimestamps ==
    \A i \in DOMAIN _states :
        LET st == _states[i]
        IN /\ Ordered(st.arrival_time, st.permission_time)
           /\ Ordered(st.arrival_time, st.enter_time)
           /\ Ordered(st.arrival_time, st.exit_time)
           /\ Ordered(st.permission_time, st.enter_time)
           /\ Ordered(st.permission_time, st.exit_time)
           /\ Ordered(st.enter_time, st.exit_time)

\* C5 amended: arrival_time <= permission_time <= exit_time and
\* arrival_time <= enter_time <= exit_time between each pair that is set;
\* permission_time and enter_time are not ordered (a vehicle that enters the
\* box before it is admitted has enter_time < permission_time).
C5_MonotonicExceptEntry ==
    \A i \in DOMAIN _states :
        LET st == _states[i]
        IN /\ Ordered(st.arrival_time, st.permission_time)
           /\ Ordered(st.arrival_time, st.enter_time)
           /\ Ordered(st.arrival_time, st.exit_time)
           /\ Ordered(st.permission_time, st.exit_time)
           /\ Ordered(st.enter_time, st.exit_time)

\* A record that was admitted after it entered the box, and is cleared.
C5_Witness ==
    \E i \in DOMAIN _states :
        /\ _states[i].enter_time # None
        /\ _states[i].permission_time > _states[i].enter_time
        /\ _states[i].exit_time >= _states[i].permission_time

(* C6 *)

\* C6: update marks a record cleared only when the vehicle was in_box before,
\* is observed outside the box, and its own distance exceeds 0.75 * R.
C6_ClearedByOwnDistance ==
    \A snapshot \in Snapshots, ts \in NextTimestamps :
        \A i \in DOMAIN snapshot :
            LET vid == snapshot[i].id
                r == After(snapshot, ts)
            IN (/\ vid \in Keys(_states)
                /\ ~Get(_states, vid).cleared
                /\ vid \in Keys(r.states)
                /\ Get(r.states, vid).cleared)
               => /\ Get(_states, vid).in_box
                  /\ ~_is_in_box(snapshot[i].loc)
                  /\ BeyondHysteresis(distance_to(snapshot[i], center))

(* C7 *)

\* C7: when a vehicle that holds permission is absent from the snapshot, after
\* the update it has no record and no permission, and if any vehicle waited
\* for a slot in that update (it was admitted by it or is left waiting) then
\* the update has admitted the one that comes first in first-come-first-served
\* order.
C7_DisappearanceFreesSlot ==
    \A snapshot \in CrowdSnapshots, ts \in NextTimestamps :
        \A vid \in Elems(_active_ids) \ SnapshotIds(snapshot) :
            \A r \in {After(snapshot, ts)} :
                LET admitted == Elems(r.active) \ Elems(_active_ids)
                    candidates == admitted \cup WaitingIds(r.states, r.active)
                IN /\ vid \notin Keys(r.states)
                   /\ vid \notin Elems(r.active)
                   /\ candidates # {} =>
                        \E x \in admitted :
                            \A y \in candidates \ {x} : Precedes(r.states, x, y)

\* A vehicle holds permission and two wait, one arrived before the other: the
\* snapshot without the first vehicle gives its slot to the earlier of the two.
C7_Witness ==
    \E vid \in Elems(_active_ids) : \E w, v \in WaitingIds(_states, _active_ids) :
        \E snapshot \in CrowdSnapshots :
            /\ Get(_states, w).arrival_time < Get(_states, v).arrival_time
            /\ SnapshotIds(snapshot) = {w, v}
            /\ snapshot[1].id = v
            /\ Elems(After(snapshot, timestamp).active) = {w}
            /\ v \in WaitingIds(After(snapshot, timestamp).states,
                                After(snapshot, timestamp).active)

(* C8 *)

\* The identifiers of the cleared records of a manager.
ClearedIds(r) == { vid \in Keys(r.states) : Get(r.states, vid).cleared }

\* The snapshots that hold the agents of snapshot in another order.
Reorderings(snapshot) ==
    { other \in Snapshots : Elems(other) = Elems(snapshot) }

\* C8: the result of update does not depend on the order of the snapshot; as
\* the claim states it for the records that are cleared: two snapshots
\* holding the same agents at the same positions in different orders lead
\* update to the same cleared records.
C8_SameClearedInAnyOrder ==
    \A snapshot \in Snapshots, ts \in NextTimestamps :
        \A other \in Reorderings(snapshot) :
            ClearedIds(After(other, ts)) = ClearedIds(After(snapshot, ts))

(* C9 *)

\* C9: update called again with the same snapshot and a timestamp not earlier
\* leaves the records and the active set as the first call left them.
C9_UpdateIdempotent ==
    \A snapshot \in Snapshots, ts \in NextTimestamps :
        \A r \in {After(snapshot, ts)} :
            \A later \in { t \in Timestamps : t >= ts } :
                UpdateResult(r.states, r.active, _max_active, snapshot, later) = r

\* A first call that changes the manager: it clears a vehicle and admits another.
C9_Witness ==
    \E snapshot \in Snapshots :
        LET r == After(snapshot, timestamp)
        IN /\ \E vid \in Keys(_states) \cap Keys(r.states) :
                ~Get(_states, vid).cleared /\ Get(r.states, vid).cleared
           /\ Elems(r.active) \ Elems(_active_ids) # {}
           /\ timestamp < MaxTime

(* C10 *)

\* C10: while a record exists its arrival_time never changes, and each of
\* permission_time, enter_time and exit_time changes at most once, from None
\* to the timestamp of the update that sets it.
C10_SetOnce ==
    [][\A vid \in Keys(_states) \cap Keys(_states') :
        LET old == Get(_states, vid)
            new == Get(_states', vid)
            SetOnce(a, b) == \/ a = b
                             \/ a = None /\ op' = "update" /\ b = timestamp'
        IN /\ new.arrival_time = old.arrival_time
           /\ SetOnce(old.permission_time, new.permission_time)
           /\ SetOnce(old.enter_time, new.enter_time)
           /\ SetOnce(old.exit_time, new.exit_time)]_vars

\* A cleared record, with its three times set, outlives a later update.
C10_Witness ==
    /\ op = "update"
    /\ \E i \in DOMAIN _states :
          /\ _states[i].permission_time # None
          /\ _states[i].enter_time # None
          /\ _states[i].exit_time # None
          /\ _states[i].exit_time < timestamp

(* C11 *)

\* C11: every record that is cleared has exit_time set, and every record with
\* in_box has enter_time set.
C11_FlagsHaveTimes ==
    \A i \in DOMAIN _states :
        /\ _states[i].cleared => _states[i].exit_time # None
        /\ _states[i].in_box => _states[i].enter_time # None

\* One record is in the box and not cleared while the last update, at a later
\* timestamp than the first, has cleared another.
C11_Witness ==
    /\ \E i \in DOMAIN _states : _states[i].in_box /\ ~_states[i].cleared
    /\ \E i \in DOMAIN _states : _states[i].cleared /\ _states[i].exit_time = timestamp
    /\ timestamp > 0

(* C12 *)

\* C12: in every state the active set holds no identifier twice, every
\* identifier in it has a record, and that record is not cleared; and a record
\* that is cleared stays cleared for as long as it exists, so that it is never
\* in the active set again.
C12_ActiveNeverCleared ==
    /\ [](/\ Cardinality(Elems(_active_ids)) = Len(_active_ids)
          /\ \A vid \in Elems(_active_ids) :
                vid \in Keys(_states) /\ ~Get(_states, vid).cleared)
    /\ [][\A vid \in Keys(_states) \cap Keys(_states') :
            Get(_states, vid).cleared => Get(_states', vid).cleared]_vars

\* A record that held permission was cleared by an earlier update, and after
\* the last update it exists still, without permission, while the slot is free.
C12_Witness ==
    /\ op = "update"
    /\ _active_ids = <<>>
    /\ \E i \in DOMAIN _states :
          /\ _states[i].cleared
          /\ _states[i].permission_time # None
          /\ _states[i].exit_time < timestamp

(* C13 *)

\* C13: current_permissions changes nothing of the manager and returns exactly
\* the identifiers of the active set; poll_completed sets the exported flag of
\* the records it returns and changes nothing else: not the active set, not
\* the limit, not the tracked records, their order or any other field.
C13_QueriesKeepScheduling ==
    [][/\ op' = "current_permissions" =>
            /\ permissions' = Elems(_active_ids)
            /\ <<_states, _active_ids, _max_active>>' = <<_states, _active_ids, _max_active>>
       /\ op' = "poll_completed" =>
            /\ <<_active_ids, _max_active>>' = <<_active_ids, _max_active>>
            /\ DOMAIN _states' = DOMAIN _states
            /\ \A i \in DOMAIN _states :
                 _states'[i] = IF _states[i].vehicle_id \in Elems(finished')
                                 THEN [_states[i] EXCEPT !.exported = TRUE]
                                 ELSE _states[i]]_vars

\* poll_completed has returned a record while another record, not cleared,
\* holds permission.
C13_Witness ==
    /\ op = "poll_completed"
    /\ finished # <<>>
    /\ \E vid \in Elems(_active_ids) : ~Get(_states, vid).exported

(* C14 *)

\* The tracked vehicles whose place is inside the box.
Occupants ==
    { vid \in RunIds : vid \in Keys(_states) /\ _is_in_box(get_location[vid]) }

\* C14: in the run loop, with every vehicle spawned outside the box and moving
\* into the box only from a tick in which it is in current_permissions, the
\* tracked vehicles inside the box are never more than max(1, max_active).
C14_BoundedOccupancy ==
    Cardinality(Occupants) <= (IF max_active < 1 THEN 1 ELSE max_active)

\* With a limit of two, two vehicles are inside the box and the third, tracked
\* and without permission, is held outside.
C14_Witness ==
    /\ max_active = 2
    /\ Cardinality(Occupants) = 2
    /\ \E vid \in WaitingIds(_states, _active_ids) : vid \notin Occupants

(* C15 *)

\* C15: after every update either the active set holds max(1, max_active)
\* identifiers or no record waits (every tracked record that is not cleared
\* holds permission); so when an update takes an identifier out of the active
\* set, by eviction or by clearance, and a record waits after it, the slot has
\* been given away in that same update.
C15_WorkConserving ==
    /\ [](\/ Len(_active_ids) = (IF max_active < 1 THEN 1 ELSE max_active)
          \/ WaitingIds(_states, _active_ids) = {})
    /\ [][(/\ op' = "update"
            /\ Elems(_active_ids) \ Elems(_active_ids') # {}
            /\ WaitingIds(_states', _active_ids') # {})
           => /\ Len(_active_ids') = _max_active
              /\ Elems(_active_ids') \ Elems(_active_ids) # {}]_vars

\* The last update has cleared a record, has given its slot to a record that
\* had waited since an earlier update, and leaves a third record waiting.
C15_Witness ==
    /\ op = "update"
    /\ \E i \in DOMAIN _states :
          _states[i].cleared /\ _states[i].exit_time = timestamp
    /\ \E vid \in Elems(_active_ids) :
          /\ Get(_states, vid).permission_time = timestamp
          /\ Get(_states, vid).arrival_time < timestamp
    /\ WaitingIds(_states, _active_ids) # {}

(* C16 *)

\* C16 as stated: after update, a tracked record has in_box only if the place
\* of its vehicle in the snapshot of that update is inside the box.
C16_InBoxMeansInside ==
    \A snapshot \in Snapshots, ts \in NextTimestamps :
        \A r \in {After(snapshot, ts)} :
            \A i \in DOMAIN snapshot :
                (/\ snapshot[i].id \in Keys(r.states)
                 /\ Get(r.states, snapshot[i].id).in_box)
                => _is_in_box(snapshot[i].loc)

\* C16 amended: in_box means that the vehicle has been observed inside the box
\* since its record was created: after update the flag is set exactly when it
\* was set before or the place in the snapshot is inside the box, so that it
\* becomes true in the first update that observes the vehicle inside and stays
\* true after the vehicle has left the box.
C16_InBoxMeansEntered ==
    \A snapshot \in Snapshots, ts \in NextTimestamps :
        \A r \in {After(snapshot, ts)} :
            \A i \in DOMAIN snapshot :
                snapshot[i].id \in Keys(r.states)
                => Get(r.states, snapshot[i].id).in_box
                     = \/ /\ snapshot[i].id \in Keys(_states)
                           /\ Get(_states, snapshot[i].id).in_box
                        \/ _is_in_box(snapshot[i].loc)

\* The record of a vehicle that left the box, and was cleared for it, has in_box.
C16_Witness ==
    \E i \in DOMAIN _states :
        /\ _states[i].in_box
        /\ _states[i].cleared
        /\ _states[i].enter_time < _states[i].exit_time

(* C17 *)

\* C17: when no vehicle holds permission for ever, a record that waits does not
\* wait for ever: its vehicle is admitted, unless it is cleared or evicted
\* before; whatever vehicles arrive meanwhile.
C17_NoStarvation ==
    \A vid \in CrowdIds :
        (vid \in WaitingIds(_states, _active_ids))
            ~> \/ InList(_active_ids, vid)
               \/ vid \notin Keys(_states)
               \/ Get(_states, vid).cleared

\* The last update has admitted a vehicle that waited while an earlier holder
\* of the slot was cleared, and a vehicle that arrived during the wait is waiting.
C17_Witness ==
    /\ op = "update"
    /\ \E x \in Elems(_active_ids) :
          /\ Get(_states, x).arrival_time < Get(_states, x).permission_time
          /\ \E y \in WaitingIds(_states, _active_ids) :
                Get(_states, x).arrival_time < Get(_states, y).arrival_time
          /\ \E i \in DOMAIN _states :
                _states[i].cleared /\ _states[i].permission_time <= Get(_states, x).arrival_time

(* C18 *)

\* C18: an identifier of the active set is in the active set after update as
\* well, unless the snapshot of that update does not hold it or that update
\* marks its record cleared; so a vehicle that holds permission, is in the
\* snapshot and has never been in the box keeps its permission.
C18_NeverPreempted ==
    \A snapshot \in Snapshots, ts \in NextTimestamps :
        \A r \in {After(snapshot, ts)} :
            \A vid \in Elems(_active_ids) :
                /\ vid \notin Elems(r.active) =>
                     \/ vid \notin SnapshotIds(snapshot)
                     \/ /\ ~Get(_states, vid).cleared
                        /\ Get(r.states, vid).cleared
                /\ (vid \in SnapshotIds(snapshot) /\ ~Get(r.states, vid).in_box)
                     => vid \in Elems(r.active)

\* A vehicle that was admitted by an earlier update and has not been in the
\* box holds its slot after the last update, while another vehicle waits.
C18_Witness ==
    /\ op = "update"
    /\ WaitingIds(_states, _active_ids) # {}
    /\ \E vid \in Elems(_active_ids) :
          /\ Get(_states, vid).permission_time < timestamp
          /\ ~Get(_states, vid).in_box

(* C19 *)

\* C19: every record that is cleared has enter_time and exit_time set, with
\* enter_time not after exit_time; so has every record poll_completed returns.
C19_EntryBeforeClearance ==
    /\ \A i \in DOMAIN _states :
          _states[i].cleared =>
              /\ _states[i].enter_time # None
              /\ _states[i].exit_time # None
              /\ _states[i].enter_time <= _states[i].exit_time
    /\ \A i \in DOMAIN finished :
          /\ finished[i] \in Keys(_states)
          /\ Get(_states, finished[i]).cleared

\* poll_completed has returned a record that never held permission: its
\* permission_time is unset, its enter_time and exit_time are set.
C19_Witness ==
    /\ op = "poll_completed"
    /\ \E i \in DOMAIN finished :
          /\ Get(_states, finished[i]).permission_time = None
          /\ Get(_states, finished[i]).enter_time # None
          /\ Get(_states, finished[i]).exit_time # None

(* C20 *)

\* C20: in the run loop a record that is cleared stays, cleared, in every later
\* tick; its identifier is not in the active set nor in the dict
\* current_permissions returns, and in every tick in which its vehicle is
\* within the stop radius of the center its step applies the full brake.
C20_ClearedIsHeld ==
    /\ [](\A vid \in RunIds :
            (vid \in Keys(_states) /\ Get(_states, vid).cleared) =>
                /\ ~InList(_active_ids, vid)
                /\ op = "current_permissions" => vid \notin permissions
                /\ op = "step" =>
                     (WithinStop(DistSq(get_location[vid], center))
                        => control[vid] = "brake"))
    /\ [][\A vid \in Keys(_states) :
            Get(_states, vid).cleared =>
                vid \in Keys(_states') /\ Get(_states', vid).cleared]_vars

\* In a tick after the one that cleared it, a vehicle within the stop radius
\* has been given the full brake while no vehicle holds permission.
C20_Witness ==
    /\ op = "step"
    /\ _active_ids = <<>>
    /\ \E vid \in Keys(_states) :
          /\ Get(_states, vid).cleared
          /\ Get(_states, vid).exit_time < timestamp
          /\ WithinStop(DistSq(get_location[vid], center))
          /\ control[vid] = "brake"

====
